---- MODULE Spec2Model ----
(***************************************************************************)
(* Model of population-pyramid-generator.py: a Streamlit script that loads *)
(* a male and a female population table, intersects their key spaces,      *)
(* resolves (country, year) selections and renders one pyramid and one     *)
(* summary table per resolved selection.                                   *)
(*                                                                         *)
(* Conventions.                                                            *)
(*  - A Python string is a sequence of one-character strings, so that      *)
(*    strip, split, isdigit, startswith and the lexicographic order are    *)
(*    computed and not assumed.                                            *)
(*  - A spreadsheet cell, a selection value and a float are records        *)
(*    [k, n, s]: k = "num" (value n), "str" (text s), "nan" or "none".     *)
(*  - A float produced by the renderer is kept in fixed point: the record  *)
(*    Num(v) stands for v / Scale.  Every value the renderer computes from *)
(*    integer counts (count/1000, half of it, 1.15 times it) is a whole    *)
(*    number of 1/Scale units, so the arithmetic is exact.                 *)
(*  - None is the empty sequence and a present value v is <<v>>.           *)
(***************************************************************************)
EXTENDS Integers, Sequences, FiniteSets, TLC

VARIABLES
    male_df,             \* st.session_state.male_df: <<>> or <<DataFrame>>
    female_df,           \* st.session_state.female_df
    age_cols,            \* st.session_state.age_cols: <<>> or <<list of names>>
    countries,           \* st.session_state.countries
    years,               \* st.session_state.years
    generated_pyramids,  \* st.session_state.generated_pyramids
    pyramid_selections,  \* st.session_state.pyramid_selections
    report,              \* messages the last script run showed, in order
    uncaught,            \* exception that ended the last script run, <<>> if none
    last_run,            \* "none", "load" or "generate": what the last run did
    call,                \* a direct call of one of the functions (SpecCalls)
    ret                  \* the value that call returned, <<>> before it ran

vars == <<male_df, female_df, age_cols, countries, years, generated_pyramids,
          pyramid_selections, report, uncaught, last_run, call, ret>>

session == <<male_df, female_df, age_cols, countries, years, generated_pyramids,
             pyramid_selections, report, uncaught, last_run>>

----------------------------------------------------------------------------
(* Bounds of the model.                                                    *)

MaxRows == 2        \* rows of a table handed to the intersector or resolver
MaxBands == 2       \* age bands of a vector handed to the renderer or formatter
MaxNameLen == 3     \* characters of a generated column name
MaxSel == 3         \* selections of one generation batch (capped by MaxPyramids)

(* Program constants.                                                      *)

MaxPyramids == 6    \* number_input(..., max_value=6)
Thousand == 1000    \* male_data.values / 1000
XLimNum == 115      \* max_val * 1.15, as the fraction XLimNum / XLimDen
XLimDen == 100

Scale == 100 * Thousand   \* fixed-point unit of a rendered float: 1/Scale

----------------------------------------------------------------------------
(* Values.                                                                 *)

Num(n) == [k |-> "num", n |-> n, s |-> <<>>]
Str(s) == [k |-> "str", n |-> 0, s |-> s]
NaN == [k |-> "nan", n |-> 0, s |-> <<>>]
NoneV == [k |-> "none", n |-> 0, s |-> <<>>]

IsNum(c) == c.k = "num"

(* Python's == on two scalars as pandas applies it elementwise: NaN and    *)
(* None equal nothing.                                                     *)
CellEq(a, b) ==
    /\ a.k = b.k
    /\ \/ a.k = "num" /\ a.n = b.n
       \/ a.k = "str" /\ a.s = b.s

Min2(a, b) == IF a <= b THEN a ELSE b

----------------------------------------------------------------------------
(* Strings.                                                                *)

Digits == {"0", "1", "2", "3", "4", "5", "6", "7", "8", "9"}
Whitespace == {" ", "\t", "\n"}

DigitVal(c) ==
    CASE c = "0" -> 0 [] c = "1" -> 1 [] c = "2" -> 2 [] c = "3" -> 3
      [] c = "4" -> 4 [] c = "5" -> 5 [] c = "6" -> 6 [] c = "7" -> 7
      [] c = "8" -> 8 [] c = "9" -> 9

(* ord() of the characters that occur in country names.                    *)
Ord(c) ==
    CASE c = " " -> 32 [] c = "A" -> 65 [] c = "B" -> 66 [] c = "C" -> 67
      [] c = "a" -> 97 [] c = "b" -> 98 [] OTHER -> 0

(* str.isdigit(): non-empty and every character a digit.                   *)
IsDigitStr(s) == Len(s) > 0 /\ \A i \in 1..Len(s) : s[i] \in Digits

RECURSIVE LStrip(_)
LStrip(s) == IF s # <<>> /\ Head(s) \in Whitespace THEN LStrip(Tail(s)) ELSE s

RECURSIVE RStrip(_)
RStrip(s) ==
    IF s # <<>> /\ s[Len(s)] \in Whitespace
    THEN RStrip(SubSeq(s, 1, Len(s) - 1))
    ELSE s

(* str.strip()                                                             *)
Strip(s) == RStrip(LStrip(s))

(* c.split('-')[0]: the characters before the first hyphen, the whole      *)
(* string when it has none.                                                *)
RECURSIVE SplitHead(_)
SplitHead(s) ==
    IF s = <<>> \/ Head(s) = "-" THEN <<>> ELSE <<Head(s)>> \o SplitHead(Tail(s))

(* c.startswith(p)                                                         *)
StartsWith(s, p) == Len(s) >= Len(p) /\ SubSeq(s, 1, Len(p)) = p

(* a < b on two str: lexicographic by code point.                          *)
RECURSIVE StrLess(_, _)
StrLess(a, b) ==
    IF b = <<>> THEN FALSE
    ELSE IF a = <<>> THEN TRUE
    ELSE IF Head(a) # Head(b) THEN Ord(Head(a)) < Ord(Head(b))
    ELSE StrLess(Tail(a), Tail(b))

(* int(s) of a string of digits.                                           *)
RECURSIVE DigitsValue(_)
DigitsValue(s) ==
    IF s = <<>> THEN 0
    ELSE 10 * DigitsValue(SubSeq(s, 1, Len(s) - 1)) + DigitVal(s[Len(s)])

RegionCol ==
    <<"R", "e", "g", "i", "o", "n", ",", " ", "s", "u", "b", "r", "e", "g", "i",
      "o", "n", ",", " ", "c", "o", "u", "n", "t", "r", "y", " ", "o", "r", " ",
      "a", "r", "e", "a", " ", "*">>
YearCol == <<"Y", "e", "a", "r">>

----------------------------------------------------------------------------
(* Loader: load_population_data.                                           *)

(* Mutant: isdigit() applied to the whole name, the split forgotten.       *)
IsAgeCol_NoSplit(c) == IsDigitStr(c) \/ StartsWith(c, <<"1", "0", "0">>)

(* The test of the list comprehension that detects the age-group columns.  *)
IsAgeCol(c) == IsDigitStr(SplitHead(c)) \/ StartsWith(c, <<"1", "0", "0">>)

StripAll(cols) == [i \in 1..Len(cols) |-> Strip(cols[i])]

DetectAgeCols(columns) == SelectSeq(columns, IsAgeCol)

(* A file is [readable, columns, rows]; pd.read_excel raises on a file it  *)
(* cannot read.  The result is [ok, df, age_cols].                         *)
load_population_data(file) ==
    IF ~file.readable
    THEN [ok |-> FALSE, df |-> [columns |-> <<>>, rows |-> <<>>], age_cols |-> <<>>]
    ELSE LET df == [columns |-> StripAll(file.columns), rows |-> file.rows]
         IN  [ok |-> TRUE, df |-> df, age_cols |-> DetectAgeCols(df.columns)]

----------------------------------------------------------------------------
(* DataFrame: [columns |-> <<name, ...>>, rows |-> <<row, ...>>], each row *)
(* a sequence of cells, one per column.                                    *)

HasCol(df, name) == \E i \in 1..Len(df.columns) : df.columns[i] = name

ColIndex(df, name) ==
    CHOOSE i \in 1..Len(df.columns) :
        /\ df.columns[i] = name
        /\ \A j \in 1..(i - 1) : df.columns[j] # name

(* df[name]; the caller has checked HasCol (a missing name is a KeyError). *)
Column(df, name) ==
    LET c == ColIndex(df, name) IN [i \in 1..Len(df.rows) |-> df.rows[i][c]]

(* set(series)                                                             *)
ValueSet(series) == {series[i] : i \in 1..Len(series)}

(* DataFrame.empty: some axis has length 0.                                *)
IsEmpty(df) == Len(df.rows) = 0 \/ Len(df.columns) = 0

(* < on two scalars of one kind (a key column holds values of one kind).   *)
CellLess(a, b) ==
    IF a.k = "num" /\ b.k = "num" THEN a.n < b.n ELSE StrLess(a.s, b.s)

(* sorted(list(S)): ascending.                                             *)
RECURSIVE Sorted(_)
Sorted(S) ==
    IF S = {} THEN <<>>
    ELSE LET m == CHOOSE x \in S : \A y \in S \ {x} : CellLess(x, y)
         IN  <<m>> \o Sorted(S \ {m})

----------------------------------------------------------------------------
(* Keyspace intersection (inline in the load handler).                     *)

(* Mutant: the union of the two country sets instead of the intersection.  *)
CommonCountries_Union(m_df, f_df) ==
    Sorted(ValueSet(Column(m_df, RegionCol)) \cup ValueSet(Column(f_df, RegionCol)))

CommonCountries(m_df, f_df) ==
    LET male_countries == ValueSet(Column(m_df, RegionCol))
        female_countries == ValueSet(Column(f_df, RegionCol))
    IN  Sorted(male_countries \cap female_countries)

CommonYears(m_df, f_df) ==
    LET years_male == ValueSet(Column(m_df, YearCol))
        years_female == ValueSet(Column(f_df, YearCol))
    IN  Sorted(years_male \cap years_female)

----------------------------------------------------------------------------
(* Row lookup (inline in the batch loop).                                  *)

(* Mutant: the two comparisons joined by | instead of &.                   *)
RowMatches_Or(df, row, country, year) ==
    \/ CellEq(row[ColIndex(df, RegionCol)], country)
    \/ CellEq(row[ColIndex(df, YearCol)], year)

(* The boolean mask of one row: both comparisons joined by &.              *)
RowMatches(df, row, country, year) ==
    /\ CellEq(row[ColIndex(df, RegionCol)], country)
    /\ CellEq(row[ColIndex(df, YearCol)], year)

(* df[(df[RegionCol] == country) & (df[YearCol] == year)]                  *)
SelectRows(df, country, year) ==
    LET Keep(row) == RowMatches(df, row, country, year)
    IN  [columns |-> df.columns, rows |-> SelectSeq(df.rows, Keep)]

(* The row of .iloc[0]                                                     *)
FirstRow(rows) == rows[1]

(* row_df[cols].iloc[0]: the cells of the first row under the columns      *)
(* cols; a name in cols that is no column is a KeyError.                   *)
TakeFirst(row_df, cols) ==
    IF \E i \in 1..Len(cols) : ~HasCol(row_df, cols[i])
    THEN [ok |-> FALSE, exc |-> "KeyError", data |-> <<>>]
    ELSE [ok |-> TRUE, exc |-> "",
          data |-> [i \in 1..Len(cols) |->
                       FirstRow(row_df.rows)[ColIndex(row_df, cols[i])]]]

----------------------------------------------------------------------------
(* Float arithmetic of the renderer on cells of kind "num" or "nan".       *)

FNeg(a) == IF IsNum(a) THEN Num(-a.n) ELSE NaN
FAbs(a) == IF IsNum(a) THEN Num(IF a.n < 0 THEN -a.n ELSE a.n) ELSE NaN
FAdd(a, b) == IF IsNum(a) /\ IsNum(b) THEN Num(a.n + b.n) ELSE NaN
FMulFrac(a, num, den) == IF IsNum(a) THEN Num((a.n * num) \div den) ELSE NaN
FGt(a, b) == IsNum(a) /\ IsNum(b) /\ a.n > b.n

(* ndarray.min() / .max() / .sum() of a non-empty (sum: any) float array:  *)
(* a NaN element makes the result NaN.                                     *)
ArrMin(v) ==
    IF \E i \in 1..Len(v) : ~IsNum(v[i]) THEN NaN
    ELSE Num(CHOOSE x \in {v[i].n : i \in 1..Len(v)} :
                 \A i \in 1..Len(v) : x <= v[i].n)
ArrMax(v) ==
    IF \E i \in 1..Len(v) : ~IsNum(v[i]) THEN NaN
    ELSE Num(CHOOSE x \in {v[i].n : i \in 1..Len(v)} :
                 \A i \in 1..Len(v) : x >= v[i].n)
RECURSIVE ArrSum(_)
ArrSum(v) == IF v = <<>> THEN Num(0) ELSE FAdd(Head(v), ArrSum(Tail(v)))

(* The builtin max(a, b): b when b > a, else a (every comparison with NaN  *)
(* is false).                                                              *)
PyMax(a, b) == IF FGt(b, a) THEN b ELSE a

----------------------------------------------------------------------------
(* Renderer: create_population_pyramid.                                    *)

(* -male_data.values / 1000 and female_data.values / 1000, elementwise on  *)
(* numeric cells, in 1/Scale units.                                        *)
MaleValue(c) == IF IsNum(c) THEN Num((-(c.n) * Scale) \div Thousand) ELSE NaN
FemaleValue(c) == IF IsNum(c) THEN Num((c.n * Scale) \div Thousand) ELSE NaN

(* Mutant: the abs() around the male minimum forgotten.                    *)
MaxVal_NoAbs(male_values, female_values) ==
    PyMax(ArrMin(male_values), ArrMax(female_values))

(* max(abs(male_values.min()), female_values.max())                        *)
MaxVal(male_values, female_values) ==
    PyMax(FAbs(ArrMin(male_values)), ArrMax(female_values))

(* ax.set_xlim(-max_val * 1.15, max_val * 1.15), as the pair of arguments. *)
XLim(max_val) ==
    <<FMulFrac(FNeg(max_val), XLimNum, XLimDen), FMulFrac(max_val, XLimNum, XLimDen)>>

(* The ax.text calls of the interactive branch, in call order: for bar i   *)
(* the male label, then the female label, each only for a value > 0.       *)
RECURSIVE BarTexts(_, _, _)
BarTexts(male_values, female_values, i) ==
    IF i > Len(male_values) \/ i > Len(female_values) THEN <<>>
    ELSE LET male_val == FAbs(male_values[i])
             female_val == female_values[i]
             m == IF FGt(male_val, Num(0))
                  THEN <<[x |-> FMulFrac(male_values[i], 1, 2), y |-> i - 1,
                          value |-> male_val]>>
                  ELSE <<>>
             f == IF FGt(female_val, Num(0))
                  THEN <<[x |-> FMulFrac(female_values[i], 1, 2), y |-> i - 1,
                          value |-> female_val]>>
                  ELSE <<>>
         IN  m \o f \o BarTexts(male_values, female_values, i + 1)

NoFig == <<>>

(* The result is [ok, exc, fig]: fig is <<figure>> when the call returned  *)
(* and exc names the exception when it raised:                             *)
(*   TypeError  - unary minus or division applied to a str element,        *)
(*   ValueError - min()/max() of an empty array, or a NaN axis limit.      *)
(* The vectors and age_groups have one length (the caller takes both       *)
(* vectors under the columns age_groups).                                  *)
create_population_pyramid(male_data, female_data, age_groups, country, year, interactive) ==
    IF \E i \in 1..Len(male_data) : male_data[i].k = "str"
    THEN [ok |-> FALSE, exc |-> "TypeError", fig |-> NoFig]
    ELSE IF \E i \in 1..Len(female_data) : female_data[i].k = "str"
    THEN [ok |-> FALSE, exc |-> "TypeError", fig |-> NoFig]
    ELSE
    LET y_pos == [i \in 1..Len(age_groups) |-> i - 1]
        male_values == [i \in 1..Len(male_data) |-> MaleValue(male_data[i])]
        female_values == [i \in 1..Len(female_data) |-> FemaleValue(female_data[i])]
        texts == IF interactive THEN BarTexts(male_values, female_values, 1) ELSE <<>>
    IN  IF Len(male_values) = 0 \/ Len(female_values) = 0
        THEN [ok |-> FALSE, exc |-> "ValueError", fig |-> NoFig]
        ELSE
        LET max_val == MaxVal(male_values, female_values)
            total_male == FAbs(ArrSum(male_values))
            total_female == ArrSum(female_values)
        IN  IF ~IsNum(max_val)
            THEN [ok |-> FALSE, exc |-> "ValueError", fig |-> NoFig]
            ELSE [ok |-> TRUE, exc |-> "",
                  fig |-> <<[yticks |-> y_pos,
                             yticklabels |-> age_groups,
                             bars_male |-> male_values,
                             bars_female |-> female_values,
                             texts |-> texts,
                             title |-> <<country, year>>,
                             xlim |-> XLim(max_val),
                             total_pop |-> FAdd(total_male, total_female),
                             total_male |-> total_male,
                             total_female |-> total_female,
                             female_unit |-> "million"]>>]

----------------------------------------------------------------------------
(* Table formatter: create_data_table.                                     *)

(* pd.to_numeric(x, errors='coerce') on one element: a number stays, a     *)
(* string of digits is parsed, anything else becomes NaN.                  *)
ToNumeric(c) ==
    IF c.k = "num" THEN c
    ELSE IF c.k = "str" /\ IsDigitStr(c.s) THEN Num(DigitsValue(c.s))
    ELSE NaN

(* Mutant: the .fillna(0) forgotten.                                      *)
FillNa_Skipped(c) == c

(* .fillna(0)                                                              *)
FillNa(c) == IF c.k = "nan" THEN Num(0) ELSE c

(* pd.to_numeric(data, errors='coerce').fillna(0).values                   *)
Coerce(data) == [i \in 1..Len(data) |-> FillNa(ToNumeric(data[i]))]

(* The DataFrame of the four columns, as its rows in order.                *)
create_data_table(male_data, female_data, age_groups, country, year) ==
    LET male_vals == Coerce(male_data)
        female_vals == Coerce(female_data)
    IN  [i \in 1..Len(age_groups) |->
            [AgeGroup |-> age_groups[i],
             Male |-> male_vals[i],
             Female |-> female_vals[i],
             Total |-> FAdd(male_vals[i], female_vals[i])]]

----------------------------------------------------------------------------
(* Messages of the UI shell: st.error, st.success, st.warning.             *)

Msg(kind, n, m, c, y) == [kind |-> kind, n |-> n, m |-> m, country |-> c, year |-> y]

LoadErrorMsg == Msg("error", 0, 0, NoneV, NoneV)
LoadSuccessMsg(cs, ys) == Msg("loaded", Len(cs), Len(ys), NoneV, NoneV)
NotFoundMsg(c, y) == Msg("warning", 0, 0, c, y)
GeneratedMsg(n) == Msg("generated", n, 0, NoneV, NoneV)

NoException == <<>>

----------------------------------------------------------------------------
(* The session after the script's first lines.                             *)

SessionInit ==
    /\ male_df = <<>>
    /\ female_df = <<>>
    /\ age_cols = <<>>
    /\ countries = <<>>
    /\ years = <<>>
    /\ generated_pyramids = <<>>
    /\ pyramid_selections = <<>>
    /\ report = <<>>
    /\ uncaught = NoException
    /\ last_run = "none"

NoCall == [op |-> "none"]

----------------------------------------------------------------------------
(* The configuration section: one selection per pyramid, each the value of *)
(* two selectboxes; a selectbox over no options returns None.              *)

Options(list) == IF list = <<>> THEN {NoneV} ELSE {list[i] : i \in 1..Len(list)}

DefaultOption(list) == IF list = <<>> THEN NoneV ELSE list[1]

SelectionLists(n, cs, ys) ==
    [1..n -> [country : Options(cs), year : Options(ys)]]

----------------------------------------------------------------------------
(* A value computed once in an action is bound by \E v \in {e}.            *)

(* "Process uploaded files": a script run with both files uploaded and the *)
(* tables not yet both loaded.  The try block publishes male_df, female_df *)
(* and age_cols before it reads the key columns, so a KeyError on a key    *)
(* column leaves those three assigned.  The configuration section runs in  *)
(* the same script run when both tables are set; its widgets show their    *)
(* defaults (one pyramid, the first option of each selectbox).             *)

KeyColumnsPresent(m_df, f_df) ==
    /\ HasCol(m_df, RegionCol)
    /\ HasCol(f_df, RegionCol)
    /\ HasCol(m_df, YearCol)
    /\ HasCol(f_df, YearCol)

ProcessUploadedFiles(male_file, female_file) ==
    /\ male_df = <<>> \/ female_df = <<>>
    /\ \E m \in {load_population_data(male_file)},
          f \in {load_population_data(female_file)} :
           IF ~m.ok \/ ~f.ok
           THEN /\ report' = <<LoadErrorMsg>>
                /\ UNCHANGED <<male_df, female_df, age_cols, countries, years,
                               pyramid_selections>>
           ELSE /\ male_df' = <<m.df>>
                /\ female_df' = <<f.df>>
                /\ age_cols' = <<m.age_cols>>
                /\ IF KeyColumnsPresent(m.df, f.df)
                   THEN /\ countries' = CommonCountries(m.df, f.df)
                        /\ years' = CommonYears(m.df, f.df)
                        /\ report' = <<LoadSuccessMsg(countries', years')>>
                   ELSE /\ UNCHANGED <<countries, years>>
                        /\ report' = <<LoadErrorMsg>>
                /\ pyramid_selections' =
                       <<[country |-> DefaultOption(countries'),
                          year |-> DefaultOption(years')]>>
    /\ uncaught' = NoException
    /\ last_run' = "load"
    /\ UNCHANGED <<generated_pyramids, call, ret>>

----------------------------------------------------------------------------
(* The generation batch.                                                   *)

(* Mutant: the reset of generated_pyramids forgotten, so a batch appends.  *)
BatchStart_Keep(previous) == previous

(* generated_pyramids at the start of a batch.                             *)
BatchStart(previous) == <<>>

(* One pass of the loop body for one selection, from the batch state       *)
(* acc = [pyramids, msgs, exc]; exc # NoException ends the script run.     *)
BatchStep(m_df, f_df, cols, selection, interactive, acc) ==
    LET country == selection.country
        year == selection.year
    IN  IF ~(HasCol(m_df, RegionCol) /\ HasCol(m_df, YearCol)
             /\ HasCol(f_df, RegionCol) /\ HasCol(f_df, YearCol))
        THEN [acc EXCEPT !.exc = <<"KeyError">>]
        ELSE
        LET male_row == SelectRows(m_df, country, year)
            female_row == SelectRows(f_df, country, year)
        IN  IF ~IsEmpty(male_row) /\ ~IsEmpty(female_row)
            THEN LET male_data == TakeFirst(male_row, cols)
                     female_data == TakeFirst(female_row, cols)
                 IN  IF ~male_data.ok THEN [acc EXCEPT !.exc = <<male_data.exc>>]
                     ELSE IF ~female_data.ok
                     THEN [acc EXCEPT !.exc = <<female_data.exc>>]
                     ELSE
                     LET fig == create_population_pyramid(
                                    male_data.data, female_data.data, cols,
                                    country, year, interactive)
                     IN  IF ~fig.ok THEN [acc EXCEPT !.exc = <<fig.exc>>]
                         ELSE [acc EXCEPT !.pyramids =
                                  Append(@, [fig |-> fig.fig[1],
                                             country |-> country,
                                             year |-> year,
                                             table |-> create_data_table(
                                                 male_data.data, female_data.data,
                                                 cols, country, year)])]
            ELSE [acc EXCEPT !.msgs = Append(@, NotFoundMsg(country, year))]

(* The for loop over the selections, from selection idx on.                *)
RECURSIVE BatchLoop(_, _, _, _, _, _, _)
BatchLoop(m_df, f_df, cols, selections, interactive, idx, acc) ==
    IF idx > Len(selections) \/ acc.exc # NoException THEN acc
    ELSE BatchLoop(m_df, f_df, cols, selections, interactive, idx + 1,
                   BatchStep(m_df, f_df, cols, selections[idx], interactive, acc))

(* A script run with the "Generate Pyramids" button pressed: the           *)
(* configuration section stores the selections, then the batch runs.       *)
GeneratePyramids(num_pyramids, selections, show_values) ==
    /\ male_df # <<>> /\ female_df # <<>>
    /\ pyramid_selections' = selections
    /\ \E done \in {BatchLoop(male_df[1], female_df[1], age_cols[1], selections,
                             show_values, 1,
                             [pyramids |-> BatchStart(generated_pyramids),
                              msgs |-> <<>>, exc |-> NoException])} :
           /\ generated_pyramids' = done.pyramids
           /\ uncaught' = done.exc
           /\ report' = IF done.exc = NoException
                        THEN Append(done.msgs, GeneratedMsg(Len(done.pyramids)))
                        ELSE done.msgs
    /\ last_run' = "generate"
    /\ UNCHANGED <<male_df, female_df, age_cols, countries, years, call, ret>>

----------------------------------------------------------------------------
(* Uploaded files of the session specification.                            *)

CountryA == <<"A">>
CountryAb == <<"A", "b">>
CountryB == <<"B">>

Band04 == <<"0", "-", "4">>
Band59 == <<"5", "-", "9">>
Band100 == <<"1", "0", "0", "+">>
Dots == <<".", ".", ".">>

(* Age-band headers as the spreadsheet has them, with stray blanks.        *)
RawBandHeaders == <<<<" ">> \o Band04, Band100 \o <<" ">>>>

Key(c, y) == <<Str(c), Num(y)>>

SessionKeys == <<Key(CountryA, 2020), Key(CountryA, 2021), Key(CountryB, 2021)>>

(* One row, or two rows (the same key twice included).                     *)
SessionKeySeqs ==
    {<<SessionKeys[i]>> : i \in 1..Len(SessionKeys)}
    \cup UNION {{<<SessionKeys[i], SessionKeys[j]>> : j \in i..Len(SessionKeys)} :
                  i \in 1..Len(SessionKeys)}

(* A readable file with the key columns, the two age bands and one row per *)
(* key; the counts of row i are counts[i].                                 *)
TableFile(keys, counts) ==
    [readable |-> TRUE,
     columns |-> <<RegionCol, YearCol>> \o RawBandHeaders,
     rows |-> [i \in 1..Len(keys) |-> keys[i] \o counts[i]]]

MaleCounts == <<<<Num(10), Num(20)>>, <<Num(30), Num(40)>>>>
FemaleCounts == <<<<Num(5), Num(25)>>, <<Num(15), Num(35)>>>>
TextCounts == <<<<Str(Dots), Num(20)>>, <<Num(30), Num(40)>>>>

TwoYears == <<Key(CountryA, 2020), Key(CountryA, 2021)>>

UnreadableFile == [readable |-> FALSE, columns |-> <<>>, rows |-> <<>>]

(* Files that depart from the expected layout: no age-band column, no Year *)
(* column, no country column, one age band only, a text cell.              *)
OddFiles ==
    {UnreadableFile,
     [readable |-> TRUE, columns |-> <<RegionCol, YearCol>>, rows |-> TwoYears],
     [readable |-> TRUE, columns |-> <<RegionCol, Band04>>,
      rows |-> <<<<Str(CountryA), Num(10)>>>>],
     [readable |-> TRUE, columns |-> <<YearCol, Band04>>,
      rows |-> <<<<Num(2020), Num(10)>>>>],
     [readable |-> TRUE, columns |-> <<RegionCol, YearCol, Band04>>,
      rows |-> <<Key(CountryA, 2020) \o <<Num(7)>>, Key(CountryA, 2021) \o <<Num(8)>>>>],
     TableFile(TwoYears, TextCounts)}

MaleUploads == {TableFile(ks, MaleCounts) : ks \in SessionKeySeqs} \cup OddFiles
FemaleUploads == {TableFile(ks, FemaleCounts) : ks \in SessionKeySeqs} \cup OddFiles

----------------------------------------------------------------------------
(* Session specification: the script runs of one browser session.          *)

Init == SessionInit /\ call = NoCall /\ ret = <<>>

Load ==
    /\ male_df = <<>> \/ female_df = <<>>
    /\ \E mf \in MaleUploads, ff \in FemaleUploads : ProcessUploadedFiles(mf, ff)

Generate ==
    \E n \in 1..Min2(MaxSel, MaxPyramids) :
        \E sels \in SelectionLists(n, countries, years), show_values \in BOOLEAN :
            GeneratePyramids(n, sels, show_values)

Next == Load \/ Generate

Spec == Init /\ [][Next]_vars

----------------------------------------------------------------------------
(* Direct calls of the functions, one per behaviour: the initial state     *)
(* holds the arguments, the step applies the function.                     *)

SeqsUpTo(S, n) == UNION {[1..m -> S] : m \in 0..n}

NameChars == {"0", "1", "5", "-", "+", "a", " "}
GeneratedNames == SeqsUpTo(NameChars, MaxNameLen)
KnownNames == {Band04, Band100, YearCol}
ScenarioColumns == <<Band04, Band59, Band100, RegionCol, YearCol>>

LoaderColumns ==
    {<<g, f>> : g \in GeneratedNames, f \in KnownNames} \cup {ScenarioColumns}

BandLabels == <<Band04, Band59, Band100>>
Labels(n) == [i \in 1..n |-> IF i <= Len(BandLabels) THEN BandLabels[i] ELSE <<"9", "9">>]

RenderCells == {Num(0), Num(10), Num(20), NaN, Str(Dots)}
FormatCells == {Num(0), Num(10), NaN, Str(Dots), Str(<<"7">>)}

ScenarioMale == <<Num(10), Num(20)>>
ScenarioFemale == <<Num(5), Num(25)>>

CallCountries == {CountryA, CountryAb, CountryB}
CallYears == {2020, 2021}
CallKeys == {Key(c, y) : c \in CallCountries, y \in CallYears}

(* A DataFrame of the two key columns.                                     *)
KeyTable(keys) == [columns |-> <<RegionCol, YearCol>>, rows |-> keys]

(* A DataFrame of the key columns and one age band; row i counts 10 * i.   *)
BandTable(keys) ==
    [columns |-> <<RegionCol, YearCol, Band04>>,
     rows |-> [i \in 1..Len(keys) |-> keys[i] \o <<Num(10 * i)>>]]

InitCalls ==
    /\ SessionInit
    /\ ret = <<>>
    /\ \/ \E cols \in LoaderColumns :
             call = [op |-> "load_population_data",
                     file |-> [readable |-> TRUE, columns |-> cols, rows |-> <<>>]]
       \/ \E n \in 0..MaxBands :
             \E m \in [1..n -> RenderCells], f \in [1..n -> RenderCells],
                interactive \in BOOLEAN :
                 call = [op |-> "create_population_pyramid", male |-> m, female |-> f,
                         age_groups |-> Labels(n), interactive |-> interactive]
       \/ \E interactive \in BOOLEAN :
             call = [op |-> "create_population_pyramid", male |-> ScenarioMale,
                     female |-> ScenarioFemale, age_groups |-> Labels(2),
                     interactive |-> interactive]
       \/ \E n \in 0..MaxBands :
             \E m \in [1..n -> FormatCells], f \in [1..n -> FormatCells] :
                 call = [op |-> "create_data_table", male |-> m, female |-> f,
                         age_groups |-> Labels(n)]
       \/ \E a \in SeqsUpTo(CallKeys, MaxRows), b \in SeqsUpTo(CallKeys, MaxRows) :
             call = [op |-> "intersect", male |-> KeyTable(a), female |-> KeyTable(b)]
       \/ \E keys \in SeqsUpTo(CallKeys, MaxRows), c \in CallCountries, y \in CallYears :
             call = [op |-> "lookup", df |-> BandTable(keys),
                     country |-> Str(c), year |-> Num(y)]

CallLoader ==
    /\ call.op = "load_population_data" /\ ret = <<>>
    /\ ret' = <<load_population_data(call.file)>>
    /\ UNCHANGED <<session, call>>

CallRenderer ==
    /\ call.op = "create_population_pyramid" /\ ret = <<>>
    /\ ret' = <<create_population_pyramid(call.male, call.female, call.age_groups,
                                          Str(CountryA), Num(2020), call.interactive)>>
    /\ UNCHANGED <<session, call>>

CallFormatter ==
    /\ call.op = "create_data_table" /\ ret = <<>>
    /\ ret' = <<create_data_table(call.male, call.female, call.age_groups,
                                  Str(CountryA), Num(2020))>>
    /\ UNCHANGED <<session, call>>

CallIntersect ==
    /\ call.op = "intersect" /\ ret = <<>>
    /\ ret' = <<[common_countries |-> CommonCountries(call.male, call.female),
                 common_years |-> CommonYears(call.male, call.female)]>>
    /\ UNCHANGED <<session, call>>

(* The lookup of one table as the batch loop does it: the filtered rows,   *)
(* and the age-band cells of the first of them when there is one.          *)
CallLookup ==
    /\ call.op = "lookup" /\ ret = <<>>
    /\ \E row \in {SelectRows(call.df, call.country, call.year)} :
           ret' = <<[empty |-> IsEmpty(row),
                     data |-> IF IsEmpty(row) THEN <<>>
                              ELSE TakeFirst(row, <<Band04>>).data]>>
    /\ UNCHANGED <<session, call>>

NextCalls == CallLoader \/ CallRenderer \/ CallFormatter \/ CallIntersect \/ CallLookup

SpecCalls == InitCalls /\ [][NextCalls]_vars

----------------------------------------------------------------------------
(* Properties.                                                             *)

Returned(op) == call.op = op /\ ret # <<>>

(* C9: the loader takes a trimmed column name for an age band exactly when *)
(* the characters before its first hyphen are digits (at least one) or the *)
(* name starts with "100", and it returns the age-band columns in column   *)
(* order; for the columns 0-4, 5-9, 100+, Region..., Year it returns       *)
(* 0-4, 5-9, 100+.                                                         *)
FirstHyphen(name) ==
    IF \E i \in 1..Len(name) : name[i] = "-"
    THEN CHOOSE i \in 1..Len(name) :
             name[i] = "-" /\ \A j \in 1..(i - 1) : name[j] # "-"
    ELSE Len(name) + 1

NumericPrefix(name) ==
    /\ FirstHyphen(name) > 1
    /\ \A i \in 1..(FirstHyphen(name) - 1) : name[i] \in Digits

Starts100(name) ==
    Len(name) >= 3 /\ name[1] = "1" /\ name[2] = "0" /\ name[3] = "0"

AgeBandName(name) == NumericPrefix(name) \/ Starts100(name)

(* out lists, in order, the entries of cols that are age-band names.       *)
KeepsAgeBandsInOrder(cols, out) ==
    LET hits == {i \in 1..Len(cols) : AgeBandName(cols[i])}
        Nth(j) == CHOOSE i \in hits : Cardinality({h \in hits : h <= i}) = j
    IN  /\ Len(out) = Cardinality(hits)
        /\ \A j \in 1..Len(out) : out[j] = cols[Nth(j)]

(* C9: every return of the loader lists exactly the age-band names of the  *)
(* trimmed header, in header order.                                        *)
C9_AgeBandDetection ==
    Returned("load_population_data") =>
        /\ ret[1].ok
        /\ KeepsAgeBandsInOrder(ret[1].df.columns, ret[1].age_cols)
        /\ call.file.columns = ScenarioColumns =>
               ret[1].age_cols = <<Band04, Band59, Band100>>

C9_Witness ==
    /\ Returned("load_population_data")
    /\ call.file.columns = ScenarioColumns
    /\ ret[1].age_cols = <<Band04, Band59, Band100>>

(* C3: the computed country list and year list hold exactly the values of  *)
(* both tables, each once, ascending; swapping the tables gives the same   *)
(* lists, and each list is within each table's own values.                 *)
CountryRank(c) ==
    CASE c = Str(CountryA) -> 1 [] c = Str(CountryAb) -> 2 [] c = Str(CountryB) -> 3

KeysOf(df, col) == {df.rows[i][col] : i \in 1..Len(df.rows)}

ListsExactly(list, S) == {list[i] : i \in 1..Len(list)} = S

(* C3: every computed pair of lists is the sorted, duplicate-free          *)
(* intersection of the two tables' key columns, whichever table is first.  *)
C3_Intersection ==
    Returned("intersect") =>
        LET cs == ret[1].common_countries
            ys == ret[1].common_years
        IN  /\ ListsExactly(cs, KeysOf(call.male, 1) \cap KeysOf(call.female, 1))
            /\ ListsExactly(ys, KeysOf(call.male, 2) \cap KeysOf(call.female, 2))
            /\ \A i \in 1..Len(cs), j \in 1..Len(cs) :
                   i < j => CountryRank(cs[i]) < CountryRank(cs[j])
            /\ \A i \in 1..Len(ys), j \in 1..Len(ys) : i < j => ys[i].n < ys[j].n
            /\ cs = CommonCountries(call.female, call.male)
            /\ ys = CommonYears(call.female, call.male)
            /\ \A i \in 1..Len(cs) :
                   cs[i] \in KeysOf(call.male, 1) /\ cs[i] \in KeysOf(call.female, 1)
            /\ \A i \in 1..Len(ys) :
                   ys[i] \in KeysOf(call.male, 2) /\ ys[i] \in KeysOf(call.female, 2)

C3_Witness ==
    /\ Returned("intersect")
    /\ call.male.rows = <<Key(CountryB, 2021), Key(CountryA, 2020)>>
    /\ call.female.rows = <<Key(CountryB, 2021), Key(CountryAb, 2020)>>
    /\ ret[1].common_countries = <<Str(CountryB)>>
    /\ ret[1].common_years = <<Num(2020), Num(2021)>>

(* C4: a lookup keeps the rows whose country equals the requested country  *)
(* and whose year equals the requested year; with no such row the result   *)
(* is empty (NotFound), otherwise the cells taken are those of the first   *)
(* such row in table order.                                                *)
MatchingRows(df, country, year) ==
    {i \in 1..Len(df.rows) : df.rows[i][1] = country /\ df.rows[i][2] = year}

(* C4: every lookup is empty exactly when no row matches both keys, and    *)
(* otherwise yields the cells of the first matching row.                   *)
C4_Lookup ==
    Returned("lookup") =>
        LET hits == MatchingRows(call.df, call.country, call.year)
        IN  /\ ret[1].empty <=> hits = {}
            /\ hits # {} =>
                   LET first == CHOOSE i \in hits : \A j \in hits : i <= j
                   IN  ret[1].data = <<call.df.rows[first][3]>>

C4_Witness ==
    /\ Returned("lookup")
    /\ Len(call.df.rows) = 2
    /\ MatchingRows(call.df, call.country, call.year) = {1, 2}
    /\ ret[1].data = <<Num(10)>>

(* C5: the renderer plots the counts as ingested, with no division by     *)
(* 1000: the male bar of band i extends to -male[i] and the female bar to  *)
(* female[i] (counts 10, 20 and 5, 25 give bars -10, -20 and 5, 25).       *)
AsIngested(count) == IF IsNum(count) THEN Num(count.n * Scale) ELSE NaN

(* C5: every rendered bar has the magnitude of the ingested count.         *)
C5_BarsAreCountsAsIngested ==
    (Returned("create_population_pyramid") /\ ret[1].ok) =>
        LET fig == ret[1].fig[1]
        IN  \A i \in 1..Len(call.age_groups) :
                /\ fig.bars_male[i] = FNeg(AsIngested(call.male[i]))
                /\ fig.bars_female[i] = AsIngested(call.female[i])

(* C6: for non-empty vectors of counts the axis limits are (-L, +L) with   *)
(* L = 1.15 * max(|least plotted male value|, greatest plotted female      *)
(* value), and no bar of either sex extends beyond them.                   *)
AllCounts(v) == \A i \in 1..Len(v) : IsNum(v[i]) /\ v[i].n >= 0

Least(S) == CHOOSE x \in S : \A y \in S : x <= y
Greatest(S) == CHOOSE x \in S : \A y \in S : x >= y
Magnitude(x) == IF x < 0 THEN -x ELSE x

NumericText(c) == c.k = "str" /\ c.s = <<"7">>

Expected(c) ==
    IF c.k = "num" THEN c.n ELSE IF NumericText(c) THEN 7 ELSE 0

(* C7: every formatted table has one row per label, coerced counts and     *)
(* Total = Male + Female.                                                  *)
C7_TableRows ==
    Returned("create_data_table") =>
        LET table == ret[1]
        IN  /\ Len(table) = Len(call.age_groups)
            /\ \A i \in 1..Len(table) :
                   /\ table[i].AgeGroup = call.age_groups[i]
                   /\ table[i].Male = Num(Expected(call.male[i]))
                   /\ table[i].Female = Num(Expected(call.female[i]))
                   /\ table[i].Total =
                          Num(Expected(call.male[i]) + Expected(call.female[i]))

C7_Witness ==
    /\ Returned("create_data_table")
    /\ call.male = <<Str(Dots), Num(10)>>
    /\ call.female = <<Num(10), NaN>>
    /\ ret[1][1].Total = Num(10)
    /\ ret[1][2].Total = Num(10)

(* C1: in a batch, a selection without a matching row in the male or the  *)
(* female table is reported by a warning and skipped, every other          *)
(* selection is processed: after the batch the result list holds one       *)
(* result per selection with a matching row in both tables, in selection   *)
(* order, and the batch does not abort.                                    *)
HasRow(df, selection) ==
    /\ HasCol(df, RegionCol) /\ HasCol(df, YearCol)
    /\ \E i \in 1..Len(df.rows) :
           /\ df.rows[i][ColIndex(df, RegionCol)] = selection.country
           /\ df.rows[i][ColIndex(df, YearCol)] = selection.year

InBothTables(selection) ==
    HasRow(male_df[1], selection) /\ HasRow(female_df[1], selection)

NotInBothTables(selection) == ~InBothTables(selection)

SelectionOf(pyramid) == [country |-> pyramid.country, year |-> pyramid.year]

SelectionsOf(pyramids) == [i \in 1..Len(pyramids) |-> SelectionOf(pyramids[i])]

Warnings == SelectSeq(report, LAMBDA m : m.kind = "warning")

WarnedSelections == [i \in 1..Len(Warnings) |->
                        [country |-> Warnings[i].country, year |-> Warnings[i].year]]

(* C1: after every batch, results = selections found in both tables,        *)
(* warnings = the other selections, and nothing was left unhandled.        *)
C1_BatchSkipsNotFoundAndCompletes ==
    last_run = "generate" =>
        /\ uncaught = NoException
        /\ SelectionsOf(generated_pyramids) = SelectSeq(pyramid_selections, InBothTables)
        /\ WarnedSelections = SelectSeq(pyramid_selections, NotInBothTables)

(* C2: a load that fails, for whatever reason, reports the error and       *)
(* leaves the male table, the female table, the age labels, the country    *)
(* list and the year list as they were.  A load is attempted only while a  *)
(* table is unset, and both are set together, so "as they were" is the     *)
(* initial session.                                                        *)
LoadFailed == last_run = "load" /\ report = <<LoadErrorMsg>>

(* C2: after every failed load the five published fields are unset.         *)
C2_FailedLoadPublishesNothing ==
    LoadFailed =>
        /\ male_df = <<>>
        /\ female_df = <<>>
        /\ age_cols = <<>>
        /\ countries = <<>>
        /\ years = <<>>

(* C8: with no age-band column detected, rendering and formatting a        *)
(* resolved selection reject the input or give an empty chart and table;   *)
(* the run never ends in an unhandled error.                               *)
NoAgeBands == age_cols = <<<<>>>>

(* C8: a batch over tables without age bands that resolves a selection      *)
(* ends without an unhandled error.                                        *)
C8_NoAgeBandsNeverCrashes ==
    (/\ last_run = "generate"
     /\ NoAgeBands
     /\ \E i \in 1..Len(pyramid_selections) : InBothTables(pyramid_selections[i])) =>
        uncaught = NoException

(* C10: a batch leaves the two tables, the age labels and the country and  *)
(* year lists as they were and replaces the previous results: after a      *)
(* batch the results are results of that batch only, at most one per       *)
(* selection (at most MaxPyramids), and as many as the reported count.     *)
RECURSIVE IsSubsequence(_, _)
IsSubsequence(a, b) ==
    IF a = <<>> THEN TRUE
    ELSE IF b = <<>> THEN FALSE
    ELSE IF Head(a) = Head(b) THEN IsSubsequence(Tail(a), Tail(b))
    ELSE IsSubsequence(a, Tail(b))

BatchLeavesSourcesAlone ==
    last_run' = "generate" =>
        /\ male_df' = male_df
        /\ female_df' = female_df
        /\ age_cols' = age_cols
        /\ countries' = countries
        /\ years' = years

ResultsAreOfLastBatch ==
    last_run = "generate" =>
        /\ IsSubsequence(SelectionsOf(generated_pyramids), pyramid_selections)
        /\ Len(generated_pyramids) <= Len(pyramid_selections)
        /\ Len(pyramid_selections) <= MaxPyramids
        /\ uncaught = NoException =>
               report[Len(report)] = GeneratedMsg(Len(generated_pyramids))

(* C10: every batch step keeps the sources, and after every batch the       *)
(* results come from that batch's selections and match the reported count. *)
C10_BatchFrame == []ResultsAreOfLastBatch /\ [][BatchLeavesSourcesAlone]_vars

C10_Witness ==
    /\ last_run = "generate"
    /\ uncaught = NoException
    /\ Len(pyramid_selections) = 3
    /\ Len(generated_pyramids) = 2
    /\ Len(Warnings) = 1

====
